---- MODULE Spec2Model ----
(***************************************************************************)
(* The explicit free-list heap allocator of src/explicit.c.                *)
(*                                                                         *)
(* Memory is the caller's buffer, an array of 8-byte words addressed by    *)
(* their byte address.  A word is a pair <<lo, hi>> of its two 4-byte      *)
(* halves (little-endian LP64): a Header is <<payload, allocated>>, a      *)
(* pointer p is <<p % 2^w, p \div 2^w>>, and caller data is whatever the   *)
(* caller stored.  The allocator's globals are the variables               *)
(* segment_start, segment_end, segment_size and free_list_start.           *)
(*                                                                         *)
(* Every function of the source is an operator from a heap record          *)
(* [mem, free_list_start, segment_start, segment_end, segment_size] to the *)
(* heap it leaves (and the value it returns); every facade call is one     *)
(* action.  live is the caller's side: the references it holds, the size   *)
(* it asked for each and how much of each it has filled with its pattern.  *)
(***************************************************************************)
EXTENDS Integers, Sequences, FiniteSets, TLC

VARIABLES mem, free_list_start, segment_start, segment_end, segment_size, live

vars == <<mem, free_list_start, segment_start, segment_end, segment_size, live>>

(***************************************************************************)
(* Program constants                                                       *)
(***************************************************************************)
HEADER_SIZE == 8
MIN_PAYLOAD_SIZE == 16
MIN_BLOCK_SIZE == 24
\* allocator.h is not part of src/: the alignment is the machine word of the
\* 8-byte header and links (explicit.c:7-10).
ALIGNMENT == 8
NULL == 0

(***************************************************************************)
(* Bounds of the model                                                     *)
(***************************************************************************)
\* width in bits of unsigned int (32 in the build, scaled); size_t and
\* pointers are twice as wide
UINT_BITS == 12
\* the caller's buffer, in 8-byte words
MaxHeapWords == 9
\* address of the caller's buffer
HEAP_START == 64
\* first word of the pattern the caller fills its allocations with
PATTERN == 165

UIntMod == 2 ^ UINT_BITS
SizeMod == UIntMod * UIntMod
\* allocator.h is not part of src/: the configured maximum request is a power
\* of two below the range of unsigned int (1 << 30 for 32 bits).
MAX_REQUEST_SIZE == 2 ^ (UINT_BITS - 2)

ToUInt(x) == x % UIntMod
ToSize(x) == x % SizeMod

MaxHeap == 8 * MaxHeapWords
Addr == {HEAP_START + 8 * i : i \in 0 .. (MaxHeapWords - 1)}
\* segment sizes the caller passes to myinit (multiples of 4 bytes)
HeapSizes == {0, HEADER_SIZE, HEADER_SIZE + 4, 2 * HEADER_SIZE, MIN_BLOCK_SIZE,
              2 * MIN_BLOCK_SIZE + 12, MaxHeap}
\* a segment whose size less the header is beyond unsigned int: the stored
\* payload is what is left modulo 2^w
HugeHeap == UIntMod + HEADER_SIZE + MIN_BLOCK_SIZE
InitSizes == HeapSizes \cup {HugeHeap}
\* sizes the caller requests: none, less than the minimum payload, two that
\* are not aligned, one no segment can hold, one above the maximum request
ReqSizes == {0, 1, MIN_PAYLOAD_SIZE + 4, 4 * ALIGNMENT + 1, MaxHeap, MAX_REQUEST_SIZE + 1}

(***************************************************************************)
(* Memory: words, headers (struct Header) and links (struct Pointers)      *)
(***************************************************************************)
\* a read or write outside the caller's buffer touches no modelled word
Rd(m, a) == IF a \in DOMAIN m THEN m[a] ELSE <<0, 0>>
Wr(m, a, w) == IF a \in DOMAIN m THEN [m EXCEPT ![a] = w] ELSE m

PtrWord(p) == <<p % UIntMod, p \div UIntMod>>
WordPtr(w) == w[1] + w[2] * UIntMod

get_payload_ptr(block) == block + HEADER_SIZE

HdrPayload(h, block) == Rd(h.mem, block)[1]
HdrAllocated(h, block) == Rd(h.mem, block)[2]
SetPayload(h, block, v) == [h EXCEPT !.mem = Wr(h.mem, block, <<ToUInt(v), Rd(h.mem, block)[2]>>)]
SetAllocated(h, block, v) == [h EXCEPT !.mem = Wr(h.mem, block, <<Rd(h.mem, block)[1], v>>)]

\* struct Pointers at the payload: previous at offset 0, next at offset 8
LinkPrev(h, block) == WordPtr(Rd(h.mem, get_payload_ptr(block)))
LinkNext(h, block) == WordPtr(Rd(h.mem, get_payload_ptr(block) + 8))
SetPrev(h, block, p) == [h EXCEPT !.mem = Wr(h.mem, get_payload_ptr(block), PtrWord(p))]
SetNext(h, block, p) == [h EXCEPT !.mem = Wr(h.mem, get_payload_ptr(block) + 8, PtrWord(p))]

\* (size + (mult - 1)) & ~(mult - 1) in size_t; for a power of two mult the
\* mask clears the remainder modulo mult
align(size, mult) ==
    LET s == ToSize(size + (mult - 1)) IN s - (s % mult)

\* memcpy(dst, src, n), n a multiple of 4: half-words copied from the heap
\* as it was
memcpy(h, dst, src, n) ==
    [h EXCEPT !.mem =
        [a \in DOMAIN h.mem |->
            <<IF dst <= a /\ a < dst + n THEN Rd(h.mem, src + (a - dst))[1] ELSE h.mem[a][1],
              IF dst <= a + 4 /\ a + 4 < dst + n THEN Rd(h.mem, src + (a - dst))[2] ELSE h.mem[a][2]>>]]

(***************************************************************************)
(* Free block list                                                         *)
(***************************************************************************)
\* add_block without its last line: the head of the list is not moved
add_block_keeps_head(h, block) ==
    LET h1 == IF h.free_list_start = NULL
              THEN SetNext(SetPrev(h, block, NULL), block, NULL)
              ELSE SetPrev(SetNext(SetPrev(h, h.free_list_start, block),
                                   block, h.free_list_start),
                           block, NULL)
    IN SetAllocated(h1, block, 0)

\* add_block that does not point the old head back at the new one
add_block_no_backlink(h, block) ==
    LET h1 == IF h.free_list_start = NULL
              THEN SetNext(SetPrev(h, block, NULL), block, NULL)
              ELSE SetPrev(SetNext(h, block, h.free_list_start), block, NULL)
    IN [SetAllocated(h1, block, 0) EXCEPT !.free_list_start = block]

add_block(h, block) ==
    LET h1 == IF h.free_list_start = NULL
              THEN SetNext(SetPrev(h, block, NULL), block, NULL)
              ELSE SetPrev(SetNext(SetPrev(h, h.free_list_start, block),
                                   block, h.free_list_start),
                           block, NULL)
    IN [SetAllocated(h1, block, 0) EXCEPT !.free_list_start = block]

\* remove_block without its last line: the header keeps saying free
remove_block_keeps_flag(h, block) ==
    LET previous == LinkPrev(h, block)
        next == LinkNext(h, block)
    IN IF previous = NULL /\ next = NULL
       THEN [h EXCEPT !.free_list_start = NULL]
       ELSE IF previous = NULL /\ next # NULL
       THEN [SetPrev(h, next, NULL) EXCEPT !.free_list_start = next]
       ELSE IF previous # NULL /\ next = NULL
       THEN SetNext(h, previous, NULL)
       ELSE SetPrev(SetNext(h, previous, next), next, previous)

remove_block(h, block) ==
    LET previous == LinkPrev(h, block)
        next == LinkNext(h, block)
        h1 == IF previous = NULL /\ next = NULL
              THEN [h EXCEPT !.free_list_start = NULL]
              ELSE IF previous = NULL /\ next # NULL
              THEN [SetPrev(h, next, NULL) EXCEPT !.free_list_start = next]
              ELSE IF previous # NULL /\ next = NULL
              THEN SetNext(h, previous, NULL)
              ELSE SetPrev(SetNext(h, previous, next), next, previous)
    IN SetAllocated(h1, block, 1)

(***************************************************************************)
(* Helpers                                                                 *)
(***************************************************************************)
\* partition that does not take the new block's header off its payload
partition_no_header(h, block, payload_space, payload) ==
    LET next_block == block + payload + HEADER_SIZE
        next_payload == ToUInt(ToSize(payload_space - payload))
        h1 == SetAllocated(SetPayload(h, next_block, next_payload), next_block, 0)
        h2 == add_block(h1, next_block)
    IN SetPayload(h2, block, payload)

\* partition without its last line: the front block keeps its old size
partition_keeps_size(h, block, payload_space, payload) ==
    LET next_block == block + payload + HEADER_SIZE
        next_payload == ToUInt(ToSize(payload_space - payload - HEADER_SIZE))
        h1 == SetAllocated(SetPayload(h, next_block, next_payload), next_block, 0)
    IN add_block(h1, next_block)

\* partition without its call of add_block: the new block is not in the list
partition_not_registered(h, block, payload_space, payload) ==
    LET next_block == block + payload + HEADER_SIZE
        next_payload == ToUInt(ToSize(payload_space - payload - HEADER_SIZE))
        h1 == SetAllocated(SetPayload(h, next_block, next_payload), next_block, 0)
    IN SetPayload(h1, block, payload)

partition(h, block, payload_space, payload) ==
    LET next_block == block + payload + HEADER_SIZE
        next_payload == ToUInt(ToSize(payload_space - payload - HEADER_SIZE))
        h1 == SetAllocated(SetPayload(h, next_block, next_payload), next_block, 0)
        h2 == add_block(h1, next_block)
    IN SetPayload(h2, block, payload)

\* find_fit that takes the last block that fits instead of the first
RECURSIVE find_fit_last(_, _, _)
find_fit_last(h, curr_block, aligned_requested_size) ==
    IF curr_block = NULL
    THEN [h |-> h, ret |-> NULL]
    ELSE LET payload_space == HdrPayload(h, curr_block)
             later == find_fit_last(h, LinkNext(h, curr_block), aligned_requested_size)
         IN IF later.ret # NULL
            THEN later
            ELSE IF payload_space >= aligned_requested_size
            THEN LET h1 == IF payload_space >= aligned_requested_size + MIN_BLOCK_SIZE
                           THEN partition(h, curr_block, payload_space, aligned_requested_size)
                           ELSE h
                 IN [h |-> remove_block(h1, curr_block), ret |-> curr_block]
            ELSE [h |-> h, ret |-> NULL]

\* find_fit that splits whenever the remainder holds a header
RECURSIVE find_fit_splits_slack(_, _, _)
find_fit_splits_slack(h, curr_block, aligned_requested_size) ==
    IF curr_block = NULL
    THEN [h |-> h, ret |-> NULL]
    ELSE LET payload_space == HdrPayload(h, curr_block) IN
         IF payload_space >= aligned_requested_size
         THEN LET h1 == IF payload_space >= aligned_requested_size + HEADER_SIZE
                        THEN partition(h, curr_block, payload_space, aligned_requested_size)
                        ELSE h
              IN [h |-> remove_block(h1, curr_block), ret |-> curr_block]
         ELSE find_fit_splits_slack(h, LinkNext(h, curr_block), aligned_requested_size)

RECURSIVE find_fit_from(_, _, _)
find_fit_from(h, curr_block, aligned_requested_size) ==
    IF curr_block = NULL
    THEN [h |-> h, ret |-> NULL]
    ELSE LET payload_space == HdrPayload(h, curr_block) IN
         IF payload_space >= aligned_requested_size
         THEN LET h1 == IF payload_space >= aligned_requested_size + MIN_BLOCK_SIZE
                        THEN partition(h, curr_block, payload_space, aligned_requested_size)
                        ELSE h
              IN [h |-> remove_block(h1, curr_block), ret |-> curr_block]
         ELSE find_fit_from(h, LinkNext(h, curr_block), aligned_requested_size)

find_fit(h, aligned_requested_size) ==
    find_fit_from(h, h.free_list_start, aligned_requested_size)

\* coalesce_right that takes the block to the right and stops there
coalesce_once(h, block, curr_block) ==
    IF curr_block < h.segment_end /\ HdrAllocated(h, curr_block) = 0
    THEN remove_block(SetPayload(h, block, HdrPayload(h, block) + HdrPayload(h, curr_block)
                                            + HEADER_SIZE),
                      curr_block)
    ELSE h

RECURSIVE coalesce_from(_, _, _)
coalesce_from(h, block, curr_block) ==
    IF curr_block < h.segment_end /\ HdrAllocated(h, curr_block) = 0
    THEN LET h1 == SetPayload(h, block, HdrPayload(h, block) + HdrPayload(h, curr_block) + HEADER_SIZE)
             h2 == remove_block(h1, curr_block)
         IN coalesce_from(h2, block, curr_block + HdrPayload(h2, curr_block) + HEADER_SIZE)
    ELSE h

\* coalesce_right with its guard inverted: it returns at once
coalesce_right_returns(h, block) == h

coalesce_right(h, block) ==
    IF block = NULL
    THEN h
    ELSE coalesce_from(h, block, block + HdrPayload(h, block) + HEADER_SIZE)

(***************************************************************************)
(* Main heap functions                                                     *)
(***************************************************************************)
\* myinit that checks the size after it has set the globals
myinit_assigns_first(h, heap_start, heap_size) ==
    LET h1 == [h EXCEPT !.segment_start = heap_start,
                        !.segment_end = heap_start + heap_size,
                        !.segment_size = heap_size,
                        !.free_list_start = heap_start]
    IN IF heap_size <= HEADER_SIZE
       THEN [h |-> h1, ret |-> FALSE]
       ELSE LET payload == ToUInt(ToSize(heap_size - HEADER_SIZE))
                h2 == SetAllocated(SetPayload(h1, heap_start, payload), heap_start, 0)
                h3 == SetNext(SetPrev(h2, heap_start, NULL), heap_start, NULL)
            IN [h |-> h3, ret |-> TRUE]

myinit(h, heap_start, heap_size) ==
    IF heap_size <= HEADER_SIZE
    THEN [h |-> h, ret |-> FALSE]
    ELSE LET h1 == [h EXCEPT !.segment_start = heap_start,
                             !.segment_end = heap_start + heap_size,
                             !.segment_size = heap_size,
                             !.free_list_start = heap_start]
             payload == ToUInt(ToSize(heap_size - HEADER_SIZE))
             h2 == SetAllocated(SetPayload(h1, heap_start, payload), heap_start, 0)
             h3 == SetNext(SetPrev(h2, heap_start, NULL), heap_start, NULL)
         IN [h |-> h3, ret |-> TRUE]

\* mymalloc that rejects only the requests above the maximum
mymalloc_takes_zero(h, requested_size) ==
    IF requested_size > MAX_REQUEST_SIZE
    THEN [h |-> h, ret |-> NULL]
    ELSE LET a == align(requested_size, ALIGNMENT)
             aligned_requested_size == IF a < MIN_PAYLOAD_SIZE THEN MIN_PAYLOAD_SIZE ELSE a
             r == find_fit(h, aligned_requested_size)
         IN IF r.ret # NULL
            THEN [h |-> r.h, ret |-> get_payload_ptr(r.ret)]
            ELSE [h |-> r.h, ret |-> NULL]

mymalloc(h, requested_size) ==
    IF requested_size > MAX_REQUEST_SIZE \/ requested_size = 0
    THEN [h |-> h, ret |-> NULL]
    ELSE LET a == align(requested_size, ALIGNMENT)
             aligned_requested_size == IF a < MIN_PAYLOAD_SIZE THEN MIN_PAYLOAD_SIZE ELSE a
             r == find_fit(h, aligned_requested_size)
         IN IF r.ret # NULL
            THEN [h |-> r.h, ret |-> get_payload_ptr(r.ret)]
            ELSE [h |-> r.h, ret |-> NULL]

myfree(h, ptr) ==
    IF ptr # NULL
    THEN LET block_ptr == ptr - HEADER_SIZE
         IN SetAllocated(add_block(coalesce_right(h, block_ptr), block_ptr), block_ptr, 0)
    ELSE h

\* a relocation that releases the old block before it asks for the new one
relocate_frees_first(h1, old_ptr, old_payload_size, new_size) ==
    LET r == mymalloc(myfree(h1, old_ptr), new_size)
    IN IF r.ret # NULL
       THEN [h |-> memcpy(r.h, r.ret, old_ptr, old_payload_size), ret |-> r.ret]
       ELSE [h |-> r.h, ret |-> NULL]

\* a relocation without the memcpy
relocate_no_copy(h1, old_ptr, old_payload_size, new_size) ==
    LET r == mymalloc(h1, new_size)
    IN IF r.ret # NULL
       THEN [h |-> myfree(r.h, old_ptr), ret |-> r.ret]
       ELSE [h |-> r.h, ret |-> NULL]

\* the relocation at the end of myrealloc: h1 is the heap after coalesce_right
relocate(h1, old_ptr, old_payload_size, new_size) ==
    LET r == mymalloc(h1, new_size)
    IN IF r.ret # NULL
       THEN [h |-> myfree(memcpy(r.h, r.ret, old_ptr, old_payload_size), old_ptr),
             ret |-> r.ret]
       ELSE [h |-> r.h, ret |-> NULL]

\* myrealloc that releases the block when the new size is 0, as realloc of
\* the C library may, and moves it for every other size
myrealloc_frees_on_zero(h, old_ptr, new_size) ==
    IF new_size = 0
    THEN [h |-> myfree(h, old_ptr), ret |-> NULL]
    ELSE IF old_ptr = NULL
    THEN mymalloc(h, new_size)
    ELSE LET r == mymalloc(h, new_size)
         IN IF r.ret # NULL
            THEN [h |-> myfree(r.h, old_ptr), ret |-> r.ret]
            ELSE r

\* myrealloc that never sheds the excess of a block that shrinks
myrealloc_keeps_excess(h, old_ptr, new_size) ==
    IF old_ptr = NULL \/ new_size = 0
    THEN mymalloc(h, new_size)
    ELSE LET old_block_ptr == old_ptr - HEADER_SIZE
             old_payload_size == HdrPayload(h, old_block_ptr)
             a == align(new_size, ALIGNMENT)
             new_aligned_size == IF a < MIN_PAYLOAD_SIZE THEN MIN_PAYLOAD_SIZE ELSE a
             min_split == ToSize(new_aligned_size + MIN_BLOCK_SIZE)
         IN IF old_payload_size >= new_aligned_size
            THEN [h |-> h, ret |-> old_ptr]
            ELSE LET h1 == coalesce_right(h, old_block_ptr)
                     new_payload_size == HdrPayload(h1, old_block_ptr)
                 IN IF new_payload_size >= new_aligned_size
                    THEN [h |-> IF new_payload_size >= min_split
                                THEN partition(h1, old_block_ptr,
                                               HdrPayload(h1, old_block_ptr), new_aligned_size)
                                ELSE h1,
                          ret |-> old_ptr]
                    ELSE relocate(h1, old_ptr, old_payload_size, new_size)

myrealloc(h, old_ptr, new_size) ==
    IF old_ptr = NULL \/ new_size = 0
    THEN mymalloc(h, new_size)
    ELSE LET old_block_ptr == old_ptr - HEADER_SIZE
             old_payload_size == HdrPayload(h, old_block_ptr)
             a == align(new_size, ALIGNMENT)
             new_aligned_size == IF a < MIN_PAYLOAD_SIZE THEN MIN_PAYLOAD_SIZE ELSE a
             min_split == ToSize(new_aligned_size + MIN_BLOCK_SIZE)
         IN IF old_payload_size = new_aligned_size
            THEN [h |-> h, ret |-> old_ptr]
            ELSE IF old_payload_size > new_aligned_size /\ old_payload_size < min_split
            THEN [h |-> h, ret |-> old_ptr]
            ELSE IF old_payload_size > new_aligned_size /\ old_payload_size >= min_split
            THEN [h |-> partition(h, old_block_ptr, old_payload_size, new_aligned_size),
                  ret |-> old_ptr]
            ELSE IF old_payload_size < new_aligned_size
            THEN LET h1 == coalesce_right(h, old_block_ptr)
                     new_payload_size == HdrPayload(h1, old_block_ptr)
                 IN IF new_payload_size >= new_aligned_size
                    THEN [h |-> IF new_payload_size >= min_split
                                THEN partition(h1, old_block_ptr,
                                               HdrPayload(h1, old_block_ptr), new_aligned_size)
                                ELSE h1,
                          ret |-> old_ptr]
                    ELSE relocate(h1, old_ptr, old_payload_size, new_size)
            ELSE [h |-> h, ret |-> NULL]

(***************************************************************************)
(* The caller                                                              *)
(***************************************************************************)
\* the heap the globals and the buffer hold now
Heap ==
    [mem |-> mem, free_list_start |-> free_list_start, segment_start |-> segment_start,
     segment_end |-> segment_end, segment_size |-> segment_size]

\* the words that hold the first n bytes of a payload
NWords(n) == (n + 7) \div 8
\* word i of the caller's pattern
Pat(i) == <<PATTERN + i, 0>>

\* live[p]: the size the caller asked for behind reference p, and the number
\* of leading payload words it knows to hold its pattern
Live == DOMAIN live
NoLive == [p \in {} |-> [size |-> 0, plen |-> 0]]
Hold(l, p, rec) == [q \in (DOMAIN l) \cup {p} |-> IF q = p THEN rec ELSE l[q]]
Drop(l, p) == [q \in (DOMAIN l) \ {p} |-> l[q]]
Min(a, b) == IF a < b THEN a ELSE b

Install(h) ==
    /\ mem' = h.mem
    /\ free_list_start' = h.free_list_start
    /\ segment_start' = h.segment_start
    /\ segment_end' = h.segment_end
    /\ segment_size' = h.segment_size

\* what the caller's buffer holds before myinit: all bits clear or all bits set
FreshWords == {<<0, 0>>, <<UIntMod - 1, UIntMod - 1>>}

\* static globals are zero before myinit; the buffer is the caller's
Init ==
    /\ \E w \in FreshWords : mem = [a \in Addr |-> w]
    /\ free_list_start = NULL
    /\ segment_start = NULL
    /\ segment_end = NULL
    /\ segment_size = 0
    /\ live = NoLive

\* the caller initializes the allocator once, on its buffer
Initialize ==
    \E heap_size \in HeapSizes :
        /\ segment_start = NULL
        /\ Install(myinit(Heap, HEAP_START, heap_size).h)
        /\ live' = NoLive

Allocate ==
    \E n \in ReqSizes :
        LET r == mymalloc(Heap, n) IN
        /\ Install(r.h)
        /\ live' = IF r.ret # NULL THEN Hold(live, r.ret, [size |-> n, plen |-> 0]) ELSE live

Release ==
    \E p \in Live \cup {NULL} :
        /\ Install(myfree(Heap, p))
        /\ live' = Drop(live, p)

Resize ==
    \E p \in Live \cup {NULL}, n \in ReqSizes :
        LET r == myrealloc(Heap, p, n) IN
        /\ Install(r.h)
        /\ live' = IF r.ret = NULL
                   THEN live
                   ELSE Hold(Drop(live, p), r.ret,
                             [size |-> n,
                              plen |-> IF p = NULL THEN 0 ELSE Min(live[p].plen, NWords(n))])

\* the caller fills the bytes it asked for with its pattern
Write ==
    \E p \in Live :
        /\ mem' = [a \in DOMAIN mem |->
                      IF p <= a /\ a < p + 8 * NWords(live[p].size)
                      THEN Pat((a - p) \div 8)
                      ELSE mem[a]]
        /\ live' = [live EXCEPT ![p].plen = NWords(live[p].size)]
        /\ UNCHANGED <<free_list_start, segment_start, segment_end, segment_size>>

\* the caller initializes the allocator again, on the same buffer, whatever it
\* holds; the references it held are gone
Reinitialize ==
    \E heap_size \in HeapSizes :
        LET r == myinit(Heap, HEAP_START, heap_size) IN
        /\ Install(r.h)
        /\ live' = IF r.ret THEN NoLive ELSE live

Next == Initialize \/ Allocate \/ Release \/ Resize \/ Write

Spec == Init /\ [][Next]_vars

\* the same caller, initializing as often as it likes
NextReinit == Reinitialize \/ Allocate \/ Release \/ Resize \/ Write

SpecReinit == Init /\ [][NextReinit]_vars

(***************************************************************************)
(* The two traversals of the heap                                          *)
(***************************************************************************)
\* the physical walk of validate_heap: from block b, advancing by
\* HEADER_SIZE + payload while below segment_end; the blocks visited and the
\* address the walk stops at.  A walk of more than fuel blocks is cut (a
\* segment holds at most one block per word).
RECURSIVE WalkFrom(_, _, _)
WalkFrom(h, b, fuel) ==
    IF b >= h.segment_end \/ fuel = 0
    THEN [blocks |-> << >>, stop |-> b]
    ELSE LET w == WalkFrom(h, b + HEADER_SIZE + HdrPayload(h, b), fuel - 1)
         IN [blocks |-> <<b>> \o w.blocks, stop |-> w.stop]

Walk(h) == WalkFrom(h, h.segment_start, MaxHeapWords + 2)
Blocks(h) == {Walk(h).blocks[i] : i \in 1 .. Len(Walk(h).blocks)}

\* the free list from the head along the next-links, cut after fuel nodes
RECURSIVE FreeFrom(_, _, _)
FreeFrom(h, b, fuel) ==
    IF b = NULL \/ fuel = 0
    THEN [nodes |-> << >>, stop |-> b]
    ELSE LET f == FreeFrom(h, LinkNext(h, b), fuel - 1)
         IN [nodes |-> <<b>> \o f.nodes, stop |-> f.stop]

FreeList(h) == FreeFrom(h, h.free_list_start, MaxHeapWords + 2)
FreeBlocks(h) == {FreeList(h).nodes[i] : i \in 1 .. Len(FreeList(h).nodes)}

Initialized == segment_start # NULL

(***************************************************************************)
(* Invariants of the heap                                                  *)
(***************************************************************************)
\* C1: coverage.  Once myinit has succeeded, whatever calls follow, the
\* physical walk from segment_start visits blocks that lie one after the
\* other without overlap and stops exactly on segment_end.
C1_Coverage ==
    Initialized =>
        LET w == Walk(Heap) IN
        /\ w.stop = segment_end
        /\ \A i \in 1 .. Len(w.blocks) : \A j \in 1 .. Len(w.blocks) :
              i < j => w.blocks[i] + HEADER_SIZE + HdrPayload(Heap, w.blocks[i]) <= w.blocks[j]

\* a heap that partition and coalesce_right have shaped: three blocks or
\* more, some free and some allocated
C1_Witness ==
    /\ Initialized
    /\ Len(Walk(Heap).blocks) >= 3
    /\ \E b \in Blocks(Heap) : HdrAllocated(Heap, b) = 0
    /\ \E b \in Blocks(Heap) : HdrAllocated(Heap, b) = 1

\* C2: free list and headers agree.  A block of the physical walk is marked
\* unallocated exactly when the next-links lead to it from free_list_start,
\* and no block is in the free list twice.
C2_FreeListMatchesHeaders ==
    Initialized =>
        LET f == FreeList(Heap) IN
        /\ f.stop = NULL
        /\ \A b \in Blocks(Heap) : (HdrAllocated(Heap, b) = 0) <=> (b \in FreeBlocks(Heap))
        /\ Cardinality(FreeBlocks(Heap)) = Len(f.nodes)

\* two free blocks in the list and an allocated block between or beside them
C2_Witness ==
    /\ Initialized
    /\ Len(FreeList(Heap).nodes) >= 2
    /\ Live # {}

\* C3: every block's payload is a multiple of the alignment and at least
\* the minimum payload, in every state after a myinit that returned true.
C3_PayloadAlignedAndMin ==
    Initialized =>
        \A b \in Blocks(Heap) :
            /\ HdrPayload(Heap, b) % ALIGNMENT = 0
            /\ HdrPayload(Heap, b) >= MIN_PAYLOAD_SIZE

\* C4: exclusive ownership.  The payload of a live allocation lies inside
\* the segment, meets the payload of no other live allocation, and holds
\* neither the header of another block nor the links of a free block.
C4_ExclusiveOwnership ==
    \A p \in Live :
        LET b == p - HEADER_SIZE
            e == p + HdrPayload(Heap, b)
        IN /\ segment_start <= b /\ e <= segment_end
           /\ \A q \in Live \ {p} :
                 e <= q \/ q + HdrPayload(Heap, q - HEADER_SIZE) <= p
           /\ \A c \in (Blocks(Heap) \cup FreeBlocks(Heap)) \ {b} :
                 /\ c + HEADER_SIZE <= p \/ e <= c
                 /\ HdrAllocated(Heap, c) = 0 =>
                       (c + HEADER_SIZE + MIN_PAYLOAD_SIZE <= p \/ e <= c + HEADER_SIZE)

\* two live allocations next to a free block
C4_Witness ==
    /\ Cardinality(Live) >= 2
    /\ free_list_start # NULL
    /\ \E p \in Live : live[p].plen > 0

(***************************************************************************)
(* Contracts of the calls, in every state the caller can reach             *)
(***************************************************************************)
\* the largest size_t: rounding it up to the alignment wraps around
SIZE_MAX == SizeMod - 1
\* the sizes the caller passes to myrealloc in C18
ResizeSizes == ReqSizes \cup {SIZE_MAX}

\* a request that fails only when nothing fits
ValidSizes == {n \in ReqSizes : 0 < n /\ n <= MAX_REQUEST_SIZE}
\* a request mymalloc rejects for its shape
InvalidSizes == {n \in ReqSizes : n = 0 \/ n > MAX_REQUEST_SIZE}

RightNeighbour(h, b) == b + HEADER_SIZE + HdrPayload(h, b)
\* the block after b is a free block of the segment
RightIsFree(h, b) ==
    RightNeighbour(h, b) < h.segment_end /\ HdrAllocated(h, RightNeighbour(h, b)) = 0

\* C5: a step that is a mymalloc finding no fit, or a myrealloc that has to
\* relocate and finds no fit (the call returns NULL and the caller holds
\* what it held), leaves the buffer and the globals as they were before the
\* call.
C5_FailureLeavesHeapUnchanged ==
    [][/\ \A n \in ValidSizes :
             LET r == mymalloc(Heap, n)
             IN (r.ret = NULL /\ Heap' = r.h /\ live' = live) => Heap' = Heap
       /\ \A p \in Live : \A n \in ValidSizes :
             LET r == myrealloc(Heap, p, n)
             IN (r.ret = NULL /\ Heap' = r.h /\ live' = live) => Heap' = Heap]_vars

\* C6: when myrealloc(p, n) returns NULL for a live p and n > 0, the block
\* of p is still a block of the walk, still allocated, and the words of the
\* payload it had before the call are unchanged.
C6_FailedResizeKeepsBlock ==
    \A p \in Live : \A n \in ReqSizes \ {0} :
        LET r == myrealloc(Heap, p, n)
            b == p - HEADER_SIZE
        IN r.ret = NULL =>
              /\ b \in Blocks(r.h)
              /\ HdrAllocated(r.h, b) = 1
              /\ \A a \in Addr :
                    (p <= a /\ a < p + HdrPayload(Heap, b)) => r.h.mem[a] = mem[a]

\* a myrealloc that fails on a block the caller has filled, after
\* coalesce_right has taken its free right neighbour
C6_Witness ==
    \E p \in Live : \E n \in ReqSizes \ {0} :
        /\ myrealloc(Heap, p, n).ret = NULL
        /\ live[p].plen > 0
        /\ RightIsFree(Heap, p - HEADER_SIZE)

\* live references pL and pR of blocks L and R, R right after L, with the
\* block after R allocated or R the last block of the segment
AdjacentPairs ==
    {pair \in Live \X Live :
        /\ pair[2] - HEADER_SIZE = RightNeighbour(Heap, pair[1] - HEADER_SIZE)
        /\ ~RightIsFree(Heap, pair[2] - HEADER_SIZE)}

\* in heap h, block b is free with the given payload, is the only block of
\* the walk and the only entry of the free list in its span, once
OneFreeBlock(h, b, payload) ==
    LET InSpan(c) == b <= c /\ c < b + HEADER_SIZE + payload IN
    /\ HdrAllocated(h, b) = 0
    /\ HdrPayload(h, b) = payload
    /\ {c \in Blocks(h) : InSpan(c)} = {b}
    /\ SelectSeq(FreeList(h).nodes, InSpan) = <<b>>

MergedPayload(pair) ==
    HdrPayload(Heap, pair[1] - HEADER_SIZE) + HdrPayload(Heap, pair[2] - HEADER_SIZE) + HEADER_SIZE

\* C7 as stated: releasing L and R, in either order, leaves one free block
\* of payload payload(L) + payload(R) + HEADER_SIZE and one free-list entry
\* in their span.
C7_EitherOrderCoalesces ==
    \A pair \in AdjacentPairs :
        /\ OneFreeBlock(myfree(myfree(Heap, pair[2]), pair[1]),
                        pair[1] - HEADER_SIZE, MergedPayload(pair))
        /\ OneFreeBlock(myfree(myfree(Heap, pair[1]), pair[2]),
                        pair[1] - HEADER_SIZE, MergedPayload(pair))

\* C7 as amended: releasing R and then L leaves one free block of payload
\* payload(L) + payload(R) + HEADER_SIZE and one free-list entry in their
\* span.
C7_RightThenLeftCoalesces ==
    \A pair \in AdjacentPairs :
        OneFreeBlock(myfree(myfree(Heap, pair[2]), pair[1]),
                     pair[1] - HEADER_SIZE, MergedPayload(pair))

\* two adjacent live blocks, with other free blocks in the list
C7_Witness ==
    /\ AdjacentPairs # {}
    /\ free_list_start # NULL

\* C8: for a live allocation of size A filled with the pattern, a myrealloc
\* to B > A that succeeds followed by a myrealloc back to A that succeeds
\* returns a reference whose first A bytes hold the pattern.
C8_ResizeRoundTrip ==
    \A p \in Live : \A B \in ReqSizes :
        LET A == live[p].size
            r1 == myrealloc(Heap, p, B)
            r2 == myrealloc(r1.h, r1.ret, A)
        IN (live[p].plen = NWords(A) /\ B > A /\ r1.ret # NULL /\ r2.ret # NULL) =>
              \A i \in 0 .. (NWords(A) - 1) : Rd(r2.h.mem, r2.ret + 8 * i) = Pat(i)

\* a round trip whose growth relocates the block
C8_Witness ==
    \E p \in Live : \E B \in ReqSizes :
        LET A == live[p].size
            r1 == myrealloc(Heap, p, B)
            r2 == myrealloc(r1.h, r1.ret, A)
        IN /\ live[p].plen = NWords(A) /\ B > A
           /\ r1.ret # NULL /\ r1.ret # p
           /\ r2.ret # NULL

\* C9: if mymalloc(s) succeeds and its result is released at once, the
\* next mymalloc(s) succeeds and returns a payload of at least s bytes.
C9_AllocateReleaseAllocate ==
    \A s \in ReqSizes :
        LET r1 == mymalloc(Heap, s)
            r3 == mymalloc(myfree(r1.h, r1.ret), s)
        IN r1.ret # NULL =>
              /\ r3.ret # NULL
              /\ HdrPayload(r3.h, r3.ret - HEADER_SIZE) >= s

\* a mymalloc that succeeds by splitting a block, in a heap with live blocks
C9_Witness ==
    /\ Live # {}
    /\ \E s \in ReqSizes :
          LET r1 == mymalloc(Heap, s)
          IN /\ r1.ret # NULL
             /\ HdrPayload(Heap, r1.ret - HEADER_SIZE) > HdrPayload(r1.h, r1.ret - HEADER_SIZE)

\* C10: mymalloc(0) and mymalloc(n) with n above MAX_REQUEST_SIZE return
\* NULL and leave the buffer, the globals and so the free list unchanged.
C10_InvalidRequestRejected ==
    \A n \in InvalidSizes :
        mymalloc(Heap, n) = [h |-> Heap, ret |-> NULL]

\* a heap in which a search would have found a block
C10_Witness ==
    /\ Live # {}
    /\ \E n \in ValidSizes : mymalloc(Heap, n).ret # NULL

C12_NullOrZeroIsAllocate ==
    /\ \A n \in ReqSizes : myrealloc(Heap, NULL, n) = mymalloc(Heap, n)
    /\ \A p \in Live :
          /\ myrealloc(Heap, p, 0) = mymalloc(Heap, 0)
          /\ myrealloc(Heap, p, 0) = [h |-> Heap, ret |-> NULL]
          /\ HdrAllocated(myrealloc(Heap, p, 0).h, p - HEADER_SIZE) = 1
          /\ p - HEADER_SIZE \in Blocks(myrealloc(Heap, p, 0).h)

\* a live block, and a free block that myrealloc(NULL, n) takes
C12_Witness ==
    /\ Live # {}
    /\ \E n \in ReqSizes : myrealloc(Heap, NULL, n).ret # NULL

\* the target of a request: rounded up to the alignment and raised to the
\* minimum payload
Target(n) ==
    LET a == align(n, ALIGNMENT) IN IF a < MIN_PAYLOAD_SIZE THEN MIN_PAYLOAD_SIZE ELSE a

\* the free blocks with room for t bytes, in free-list order
Fits(h, t) == SelectSeq(FreeList(h).nodes, LAMBDA b : HdrPayload(h, b) >= t)

\* C13: first fit.  For a valid request with target t, mymalloc returns the
\* payload of the first block in free-list order whose payload is at least
\* t, and returns NULL exactly when the free list has no such block.
C13_FirstFit ==
    \A n \in ValidSizes :
        LET r == mymalloc(Heap, n)
            fits == Fits(Heap, Target(n))
        IN /\ (r.ret = NULL) <=> (fits = << >>)
           /\ fits # << >> => r.ret = get_payload_ptr(Head(fits))

\* a request that the head of the free list cannot hold and a later block can
C13_Witness ==
    \E n \in ValidSizes :
        LET fits == Fits(Heap, Target(n))
        IN /\ fits # << >>
           /\ Head(fits) # free_list_start

\* C14: the split rule of mymalloc.  The chosen block b has payload P and
\* the target is t.  If P >= t + MIN_BLOCK_SIZE the returned block has
\* payload t, and a free block of payload P - t - HEADER_SIZE starts right
\* after it and is in the free list; otherwise the returned block keeps
\* payload P and no block is added.
C14_SplitRule ==
    \A n \in ValidSizes :
        LET r == mymalloc(Heap, n)
            t == Target(n)
            fits == Fits(Heap, t)
            b == Head(fits)
            P == HdrPayload(Heap, b)
            nb == b + HEADER_SIZE + t
        IN fits # << >> =>
              /\ r.ret = get_payload_ptr(b)
              /\ HdrAllocated(r.h, b) = 1
              /\ IF P >= t + MIN_BLOCK_SIZE
                 THEN /\ HdrPayload(r.h, b) = t
                      /\ HdrAllocated(r.h, nb) = 0
                      /\ HdrPayload(r.h, nb) = P - t - HEADER_SIZE
                      /\ Blocks(r.h) = Blocks(Heap) \cup {nb}
                      /\ FreeBlocks(r.h) = (FreeBlocks(Heap) \ {b}) \cup {nb}
                 ELSE /\ HdrPayload(r.h, b) = P
                      /\ Blocks(r.h) = Blocks(Heap)
                      /\ FreeBlocks(r.h) = FreeBlocks(Heap) \ {b}

\* a request that splits a block of a free list of two, and a request that
\* leaves slack in the block it takes
C14_Witness ==
    /\ Len(FreeList(Heap).nodes) >= 2
    /\ \E n \in ValidSizes :
          LET fits == Fits(Heap, Target(n))
          IN /\ fits # << >>
             /\ HdrPayload(Heap, Head(fits)) >= Target(n) + MIN_BLOCK_SIZE
    /\ \E n \in ValidSizes :
          LET fits == Fits(Heap, Target(n))
          IN /\ fits # << >>
             /\ HdrPayload(Heap, Head(fits)) > Target(n)
             /\ HdrPayload(Heap, Head(fits)) < Target(n) + MIN_BLOCK_SIZE

\* the bytes of the free blocks that lie one after the other from block c on:
\* header and payload of each, up to the first allocated block or segment_end
RECURSIVE FreeRun(_, _, _)
FreeRun(h, c, fuel) ==
    IF fuel = 0 \/ c >= h.segment_end \/ HdrAllocated(h, c) # 0
    THEN 0
    ELSE HEADER_SIZE + HdrPayload(h, c)
         + FreeRun(h, c + HEADER_SIZE + HdrPayload(h, c), fuel - 1)

\* the payload block b can have without moving, for target t
Available(h, b, t) ==
    IF HdrPayload(h, b) >= t
    THEN HdrPayload(h, b)
    ELSE HdrPayload(h, b) + FreeRun(h, RightNeighbour(h, b), MaxHeapWords + 2)

\* C15: myrealloc in place.  For a live p and n > 0 with target t and
\* available payload a: when a >= t, myrealloc returns p, the block ends
\* with payload t and a free block of payload a - t - HEADER_SIZE after it
\* if a >= t + MIN_BLOCK_SIZE, and with payload a otherwise, and the heap is
\* unchanged when t <= old payload < t + MIN_BLOCK_SIZE; when a < t it does
\* not return p.
C15_InPlacePolicy ==
    \A p \in Live : \A n \in ReqSizes \ {0} :
        LET r == myrealloc(Heap, p, n)
            t == Target(n)
            b == p - HEADER_SIZE
            old == HdrPayload(Heap, b)
            a == Available(Heap, b, t)
            nb == b + HEADER_SIZE + t
        IN /\ a >= t =>
                 /\ r.ret = p
                 /\ HdrAllocated(r.h, b) = 1
                 /\ IF a >= t + MIN_BLOCK_SIZE
                    THEN /\ HdrPayload(r.h, b) = t
                         /\ HdrAllocated(r.h, nb) = 0
                         /\ HdrPayload(r.h, nb) = a - t - HEADER_SIZE
                         /\ nb \in Blocks(r.h)
                         /\ nb \in FreeBlocks(r.h)
                    ELSE HdrPayload(r.h, b) = a
           /\ (t <= old /\ old < t + MIN_BLOCK_SIZE) => r.h = Heap
           /\ a < t => r.ret # p

\* a block that grows over its free right neighbours and sheds what is left
\* of them
C15_Witness ==
    \E p \in Live : \E n \in ReqSizes \ {0} :
        /\ HdrPayload(Heap, p - HEADER_SIZE) < Target(n)
        /\ Available(Heap, p - HEADER_SIZE, Target(n)) >= Target(n) + MIN_BLOCK_SIZE

\* the free blocks that lie one after the other from block c on
RECURSIVE FreeRunBlocks(_, _, _)
FreeRunBlocks(h, c, fuel) ==
    IF fuel = 0 \/ c >= h.segment_end \/ HdrAllocated(h, c) # 0
    THEN {}
    ELSE {c} \cup FreeRunBlocks(h, c + HEADER_SIZE + HdrPayload(h, c), fuel - 1)

\* C16: after myfree(p) on a live p, the block of p is marked free and is
\* the head of the free list, it has taken in every free block that lay
\* after it without a gap (none of them is in the free list or the walk any
\* more), and the block after it is allocated or it ends at segment_end.
C16_ReleasePostcondition ==
    \A p \in Live :
        LET h2 == myfree(Heap, p)
            b == p - HEADER_SIZE
            run == FreeRunBlocks(Heap, RightNeighbour(Heap, b), MaxHeapWords + 2)
        IN /\ HdrAllocated(h2, b) = 0
           /\ h2.free_list_start = b
           /\ LinkPrev(h2, b) = NULL
           /\ LinkNext(h2, b) = Head(SelectSeq(FreeList(Heap).nodes, LAMBDA c : c \notin run)
                                      \o <<NULL>>)
           /\ HdrPayload(h2, b) = HdrPayload(Heap, b)
                                    + FreeRun(Heap, RightNeighbour(Heap, b), MaxHeapWords + 2)
           /\ FreeBlocks(h2) = (FreeBlocks(Heap) \ run) \cup {b}
           /\ Blocks(h2) = Blocks(Heap) \ run
           /\ ~RightIsFree(h2, b)

\* a live block with two free blocks after it, one after the other
C16_Witness ==
    \E p \in Live :
        Cardinality(FreeRunBlocks(Heap, RightNeighbour(Heap, p - HEADER_SIZE),
                                  MaxHeapWords + 2)) >= 2

\* C17: for every size myinit accepts, sizes beyond the header's payload
\* field included, and whatever an earlier myinit and the calls after it
\* left, a myinit that returns true leaves one block: free, with stored
\* payload heap_size - HEADER_SIZE, both links NULL, the only block of the
\* walk and the only entry of the free list.
C17_InitLeavesOneFreeBlock ==
    \A heap_size \in InitSizes :
        LET r == myinit(Heap, HEAP_START, heap_size) IN
        r.ret =>
            /\ r.h.segment_start = HEAP_START
            /\ r.h.segment_end = HEAP_START + heap_size
            /\ r.h.segment_size = heap_size
            /\ r.h.free_list_start = HEAP_START
            /\ HdrAllocated(r.h, HEAP_START) = 0
            /\ HdrPayload(r.h, HEAP_START) = heap_size - HEADER_SIZE
            /\ LinkPrev(r.h, HEAP_START) = NULL
            /\ LinkNext(r.h, HEAP_START) = NULL
            /\ Walk(r.h).blocks = <<HEAP_START>>
            /\ FreeList(r.h).nodes = <<HEAP_START>>

\* C18: for every live p and every n > 0 of size_t, the sizes above
\* MAX_REQUEST_SIZE and those whose rounding wraps included, a myrealloc(p, n)
\* that returns a reference returns a block with payload at least n.
C18_ResizeDeliversCapacity ==
    \A p \in Live : \A n \in ResizeSizes \ {0} :
        LET r == myrealloc(Heap, p, n)
        IN r.ret # NULL => HdrPayload(r.h, r.ret - HEADER_SIZE) >= n

\* C19: the free list is a finite doubly-linked list without a cycle.  The
\* next-links from free_list_start reach NULL, no block is met twice, the
\* previous link of the head is NULL, and the previous link of the block
\* that follows n is n.
C19_FreeListWellFormed ==
    Initialized =>
        LET f == FreeList(Heap)
            k == Len(f.nodes)
        IN /\ f.stop = NULL
           /\ Cardinality(FreeBlocks(Heap)) = k
           /\ k > 0 =>
                 /\ LinkPrev(Heap, f.nodes[1]) = NULL
                 /\ LinkNext(Heap, f.nodes[k]) = NULL
           /\ \A i \in 1 .. (k - 1) :
                 /\ LinkNext(Heap, f.nodes[i]) = f.nodes[i + 1]
                 /\ LinkPrev(Heap, f.nodes[i + 1]) = f.nodes[i]

\* a free list with a head, an interior block and a tail
C19_Witness ==
    /\ Initialized
    /\ Len(FreeList(Heap).nodes) >= 3

\* in heap h2 the live allocation q is where and what it is now: its block
\* is a block of the walk, its header (payload size and allocated flag) and
\* the words of its payload are unchanged
Untouched(q, h2) ==
    LET b == q - HEADER_SIZE IN
    /\ b \in Blocks(h2)
    /\ HdrAllocated(h2, b) = 1
    /\ Rd(h2.mem, b) = Rd(mem, b)
    /\ \A a \in Addr : (q <= a /\ a < q + HdrPayload(Heap, b)) => h2.mem[a] = mem[a]

\* C20: frame.  A mymalloc, a myfree or a myrealloc leaves every live
\* allocation other than the one passed to it at its address, allocated,
\* with the header payload size and the payload bytes it had.
C20_FrameOnLive ==
    \A q \in Live :
        /\ \A n \in ReqSizes : Untouched(q, mymalloc(Heap, n).h)
        /\ \A p \in (Live \cup {NULL}) \ {q} :
              /\ Untouched(q, myfree(Heap, p))
              /\ \A n \in ReqSizes : Untouched(q, myrealloc(Heap, p, n).h)

\* a filled live allocation beside a live block whose release or growth
\* takes in the free block after it
C20_Witness ==
    \E q \in Live :
        /\ live[q].plen > 0
        /\ \E p \in Live \ {q} :
              /\ RightIsFree(Heap, p - HEADER_SIZE)
              /\ RightNeighbour(Heap, q - HEADER_SIZE) = p - HEADER_SIZE

====
